---- MODULE Spec2Model ----
(***************************************************************************)
(* Model of mirakl_lib: the request orchestration of MiraklClient          *)
(* (client.py), its tracking payload (shipping.py) and the client          *)
(* registry MiraklClientProvider.                                          *)
(*                                                                         *)
(* One public call is in progress at a time (the library is synchronous).  *)
(* A call is started by a Call* action, advances one retry-loop iteration  *)
(* per step (an iteration issues at most one HTTP request and holds the    *)
(* answer's whole handling, the sleep included) and ends in pc = "done"    *)
(* with its outcome.  The HTTP server's answers are the environment: each  *)
(* iteration draws one from Responses / ShipResponses.                     *)
(*                                                                         *)
(* Optional values (Python's None) are sequences: None is <<>>, a present  *)
(* value v is <<v>>.                                                       *)
(***************************************************************************)
EXTENDS Integers, Sequences, FiniteSets, TLC

VARIABLES
    clients,         \* MiraklClientProvider.clients: account name -> MiraklClient
    pc,              \* position of the call in progress
    op,              \* name of the public method called
    self,            \* account name of the client the method was called on
    args,            \* the call's arguments
    retry_count,     \* retry_count of the running retry loop
    outcome,         \* what the public call gave its caller
    innerResult,     \* value returned by the wrapped function (retry_wrapper)
    nreq,            \* HTTP requests issued by the running retry loop
    n429,            \* of these, answered with status 429
    nsleep,          \* time.sleep calls of the running retry loop
    lastSleep,       \* duration of the last time.sleep (0: none yet)
    lastStatus,      \* status of the last HTTP response (0: none yet)
    lastBody,        \* body of the last response to put_ship_confirmation
    lastBuild,       \* what the last payload build of put_tracking did
    wireBody,        \* JSON body of the call's last tracking PUT transmitted
    srvFirst,        \* server: id of the first offer of the collection
    srvCount,        \* server: number of offers in the collection
    nmut,            \* server: mutations since the traversal started
    current_offset,  \* get_all_offers: current_offset
    total_count,     \* get_all_offers: total_count
    offers,          \* get_all_offers: offers (get_offers: the page returned)
    pageCalls,       \* offsets get_offers was called with by the call in progress
    lastRetryAfter,  \* Retry-After header of the last 429 response (None: absent)
    earlier429,      \* get_all_offers: an earlier page was answered 429
    retval,          \* the value a call without retry loop returned
    loopRequests,    \* get_orders requests of the caller's paging loop
    provided,        \* the arguments MiraklClientProvider was constructed with
    threads,         \* concurrent callers: the call each thread is in
    locals           \* concurrent callers: the local variables of each thread's call

vars == <<clients, pc, op, self, args, retry_count, outcome, innerResult, nreq,
          n429, nsleep, lastSleep, lastStatus, lastBody, lastBuild, wireBody,
          srvFirst, srvCount, nmut, current_offset, total_count, offers,
          pageCalls, lastRetryAfter, earlier429, retval, loopRequests, provided,
                   threads, locals>>

----------------------------------------------------------------------------
(* Bounds of the model *)

MaxTnLen == 2
MaxTotal == 250
MaxMutations == 1
MaxCents == 30
MaxOffers == 2
MaxFollow == 10

(* Program constants *)

max_retries == 10
get_offers_max_retries == 10
limit == 100
default_retry_after == 2

----------------------------------------------------------------------------
(* Values *)

None == <<>>
Some(v) == <<v>>

Min(a, b) == IF a < b THEN a ELSE b
Max(a, b) == IF a > b THEN a ELSE b

ShippingCarrier == {"ups", "usps", "fedex", "dhl", "custom"}

CONFIRMED == "CONFIRMED"
PREVIOUSLY_CONFIRMED == "PREVIOUSLY_CONFIRMED"

\* Tracking numbers are character sequences over a small alphabet.
TnChars == {"1", "Z", " "}
TrackingNumbers == UNION {[1..n -> TnChars] : n \in 0..MaxTnLen}

OrderIds == {"o1"}
MarketplaceNames == {"A", "B", "C", "D"}

\* str.startswith
startswith(s, prefix) ==
    /\ Len(s) >= Len(prefix)
    /\ SubSeq(s, 1, Len(prefix)) = prefix

\* re.search(pattern, s) for a literal pattern: pattern occurs in s.
\* Messages are sequences of words.
re_search(pattern, s) ==
    \E i \in 0..(Len(s) - Len(pattern)) :
        SubSeq(s, i + 1, i + Len(pattern)) = pattern

ship_pattern == <<"Current", "status", "is">>

----------------------------------------------------------------------------
(* HTTP responses (the environment) *)

Statuses == {200, 404, 429, 500}

\* The Retry-After header: absent, or a number of seconds.
RetryAfterHeaders == {None, Some(1)}

NoBody == [valid_json |-> TRUE, message |-> None]

\* Bodies of the answers to the ship confirmation PUT.
ShipBodies ==
    { NoBody,
      [valid_json |-> FALSE, message |-> None],
      [valid_json |-> TRUE, message |-> Some(<<"Too", "Many", "Requests">>)],
      [valid_json |-> TRUE, message |-> Some(<<"Current", "status">>)],
      [valid_json |-> TRUE,
       message |-> Some(<<"Order", "Current", "status", "is", "SHIPPED">>)] }

Responses == [status : Statuses, retry_after : RetryAfterHeaders, body : {NoBody}]
ShipResponses == [status : Statuses, retry_after : RetryAfterHeaders, body : ShipBodies]

\* requests.Response.ok: raise_for_status() raises for 4xx and 5xx only.
ok(status) == status < 400

\* int(headers.get("Retry-After", 2))
retry_after_of(resp) ==
    IF resp.retry_after = None THEN default_retry_after ELSE resp.retry_after[1]

\* The test of the status, taking every status from 429 up for a rate limit.
IsRateLimited_from429(status) == status >= 429

\* retry_wrapper, line 79, and get_offers, line 282: status_code == 429.
IsRateLimited(status) == status = 429

----------------------------------------------------------------------------
(* shipping.py: OR23RequestBody *)

OR23RequestBody(carrier_code, carrier_name, carrier_url, tracking_number) ==
    [carrier_code |-> carrier_code, carrier_name |-> carrier_name,
     carrier_url |-> carrier_url, tracking_number |-> tracking_number]

\* A URL: its scheme, its host and the tracking number placed in its query.
Url(scheme, host, tn) == [scheme |-> scheme, host |-> host, tn |-> tn]

\* validators.url: an absolute http(s) URL without white space.
validators_url(u) ==
    /\ u.scheme \in {"http", "https"}
    /\ u.host # ""
    /\ \A i \in 1..Len(u.tn) : u.tn[i] # " "

\* validate_for_mirakl without its checks.
validate_for_mirakl_unchecked(body) == "ok"

\* validate_for_mirakl: "ok", or the ValueError it raises.  Python reads
\* `a and b or c` as `(a and b) or c`.
validate_for_mirakl(body) ==
    IF (body.carrier_code = None /\ body.carrier_name = None)
       \/ body.carrier_url = None
    THEN "ValueError"
    ELSE IF body.carrier_code = None /\ ~validators_url(body.carrier_url[1])
    THEN "ValueError"
    ELSE "ok"

\* model_dump(exclude_none=True): the fields that are not None.
model_dump_exclude_none(body) ==
    LET present == {k \in {"carrier_code", "carrier_name", "carrier_url"} :
                        body[k] # None} \cup {"tracking_number"}
    IN  [k \in present |-> body[k]]

----------------------------------------------------------------------------
(* client.py: the pluggable tracking-URL generators and carrier resolvers *)

\* A generator gives [raised, url]; a resolver gives [raised, carrier].
generate_custom_tracking_url(carrier, tracking_number) ==
    IF carrier = "dhl"
    THEN [raised |-> FALSE, url |-> Some(Url("https", "www.dhl.com", tracking_number))]
    ELSE [raised |-> TRUE, url |-> None]

\* determine_carrier that resolves only when no order number is given.
determine_carrier_without_order(tracking_number, marketpace_order_number) ==
    IF startswith(tracking_number, <<"1", "Z">>) /\ marketpace_order_number = None
    THEN [raised |-> FALSE, carrier |-> "ups"]
    ELSE [raised |-> TRUE, carrier |-> "custom"]

determine_carrier(tracking_number, marketpace_order_number) ==
    IF startswith(tracking_number, <<"1", "Z">>)
    THEN [raised |-> FALSE, carrier |-> "ups"]
    ELSE [raised |-> TRUE, carrier |-> "custom"]

\* Custom functions an account may configure (CustomTrackingUrlFunc,
\* CustomCarrierDeterminationFunc): one generator that serves every carrier,
\* one that gives a relative URL, one resolver that falls back to FedEx.
tracking_url_generation_func(f, carrier, tracking_number) ==
    CASE f = "generate_custom_tracking_url" ->
            generate_custom_tracking_url(carrier, tracking_number)
      [] f = "gen_all" ->
            [raised |-> FALSE,
             url |-> Some(Url("https", "track.example", tracking_number))]
      [] f = "gen_relative" ->
            [raised |-> FALSE, url |-> Some(Url("", "", tracking_number))]

carrier_determination_func(f, tracking_number, order_number) ==
    CASE f = "determine_carrier" -> determine_carrier(tracking_number, order_number)
      [] f = "det_fedex" ->
            IF startswith(tracking_number, <<"1", "Z">>)
            THEN [raised |-> FALSE, carrier |-> "ups"]
            ELSE [raised |-> FALSE, carrier |-> "fedex"]

----------------------------------------------------------------------------
(* client.py: MiraklClient.__init__ and MiraklClientProvider *)

CarrierConfig(carrier, code) ==
    [shipping_carrier |-> carrier, marketplace_carrier_code |-> code]

\* {config["shipping_carrier"]: config for config in carrier_configurations}:
\* the last configuration of a carrier wins.
carrier_configurations_dict(list) ==
    LET keys == {list[i].shipping_carrier : i \in 1..Len(list)}
        last(k) == CHOOSE i \in 1..Len(list) :
                       /\ list[i].shipping_carrier = k
                       /\ \A j \in (i + 1)..Len(list) : list[j].shipping_carrier # k
    IN  [k \in keys |-> list[last(k)]]

MiraklClient(marketplace, base_url, api_key, carrier_configurations, url_func, det_func) ==
    [marketplace |-> marketplace,
     base_url |-> base_url,
     api_key |-> api_key,
     carrier_configurations |-> carrier_configurations_dict(carrier_configurations),
     tracking_url_generation_func |-> url_func,
     carrier_determination_func |-> det_func]

\* A registry whose clients take the first override any account has.
MiraklClientProvider_shared(marketplace_names, marketplace_config, configured_carriers_config, custom_tracking_url_generation_config, custom_carrier_determination_config) ==
    LET any(config, default) ==
            IF DOMAIN config = {} THEN default
            ELSE config[CHOOSE a \in DOMAIN config : TRUE]
    IN  [marketplace \in marketplace_names |->
            MiraklClient(
                marketplace,
                marketplace_config[marketplace].base_url,
                marketplace_config[marketplace].api_key,
                any(configured_carriers_config, <<>>),
                any(custom_tracking_url_generation_config, "generate_custom_tracking_url"),
                any(custom_carrier_determination_config, "determine_carrier"))]

MiraklClientProvider(marketplace_names, marketplace_config, configured_carriers_config, custom_tracking_url_generation_config, custom_carrier_determination_config) ==
    [marketplace \in marketplace_names |->
        MiraklClient(
            marketplace,
            marketplace_config[marketplace].base_url,
            marketplace_config[marketplace].api_key,
            IF marketplace \in DOMAIN configured_carriers_config
                THEN configured_carriers_config[marketplace] ELSE <<>>,
            IF marketplace \in DOMAIN custom_tracking_url_generation_config
                THEN custom_tracking_url_generation_config[marketplace]
                ELSE "generate_custom_tracking_url",
            IF marketplace \in DOMAIN custom_carrier_determination_config
                THEN custom_carrier_determination_config[marketplace]
                ELSE "determine_carrier")]

MarketplaceConfigs ==
    [m \in MarketplaceNames |-> [base_url |-> <<"https", m>>, api_key |-> <<"key", m>>]]

\* The per-account overrides the registry is built with: A maps UPS (twice)
\* and DHL to carrier codes and has a generator for every carrier; B maps
\* FedEx and resolves unknown tracking numbers to FedEx; C has no override;
\* D has a generator of relative URLs.
ConfiguredCarriers ==
    ("A" :> <<CarrierConfig("ups", "OLD"), CarrierConfig("dhl", "DHLX"),
              CarrierConfig("ups", "UPS")>>)
    @@ ("B" :> <<CarrierConfig("fedex", "FDX")>>)
CustomTrackingUrlGeneration == ("A" :> "gen_all") @@ ("D" :> "gen_relative")
CustomCarrierDetermination == ("B" :> "det_fedex")

\* get_client: self.clients.get(marketplace).
get_client(registry, marketplace) ==
    IF marketplace \in DOMAIN registry THEN Some(registry[marketplace]) ELSE None

\* The arguments of a MiraklClientProvider construction.
ProviderArgs(names, carriers, url_funcs, det_funcs) ==
    [marketplace_names |-> names,
     marketplace_config |-> MarketplaceConfigs,
     configured_carriers_config |-> carriers,
     custom_tracking_url_generation_config |-> url_funcs,
     custom_carrier_determination_config |-> det_funcs]

----------------------------------------------------------------------------
(* client.py: the wrapped request functions                                *)
(* A request function's result: the exception it raised ("none": it        *)
(* returned ret), the status of an HTTPError, whether it issued its HTTP   *)
(* request, the body it sent and what its payload build did.               *)

\* A payload build: whether put_tracking got to it (the carrier was resolved),
\* the carrier, whether the account maps it to a carrier code, the calls made
\* to the tracking-URL generator and whether the generator raised.
Build(carrier, mapped, genCalls, genRaised) ==
    [reached |-> TRUE, carrier |-> carrier, mapped |-> mapped,
     genCalls |-> genCalls, genRaised |-> genRaised]

NoBuild ==
    [reached |-> FALSE, carrier |-> "none", mapped |-> FALSE, genCalls |-> 0,
     genRaised |-> FALSE]

Result(exc, ret, status, sent, body, build) ==
    [exc |-> exc, ret |-> ret, status |-> status, sent |-> sent, body |-> body,
     build |-> build]

\* put_tracking, lines 312-325, calling the generator before it looks the
\* carrier up.
build_payload_eager(client, carrier, tracking_number) ==
    LET gen == tracking_url_generation_func(
                   client.tracking_url_generation_func, carrier, tracking_number)
        mapped == carrier \in DOMAIN client.carrier_configurations
    IN  IF gen.raised
        THEN [exc |-> "NotImplementedError", payload |-> None,
              build |-> Build(carrier, mapped, 1, TRUE)]
        ELSE IF mapped
        THEN [exc |-> "none",
              payload |-> Some(OR23RequestBody(
                  Some(client.carrier_configurations[carrier].marketplace_carrier_code),
                  None, None, tracking_number)),
              build |-> Build(carrier, TRUE, 1, FALSE)]
        ELSE [exc |-> "none",
              payload |-> Some(OR23RequestBody(
                  None, Some(carrier), gen.url, tracking_number)),
              build |-> Build(carrier, FALSE, 1, FALSE)]

\* put_tracking, lines 312-325, filling the name and the URL in next to the
\* carrier code.
build_payload_both(client, carrier, tracking_number) ==
    LET gen == tracking_url_generation_func(
                   client.tracking_url_generation_func, carrier, tracking_number)
        mapped == carrier \in DOMAIN client.carrier_configurations
    IN  IF gen.raised
        THEN [exc |-> "NotImplementedError", payload |-> None,
              build |-> Build(carrier, mapped, 1, TRUE)]
        ELSE [exc |-> "none",
              payload |-> Some(OR23RequestBody(
                  IF mapped
                  THEN Some(client.carrier_configurations[carrier].marketplace_carrier_code)
                  ELSE None,
                  Some(carrier), gen.url, tracking_number)),
              build |-> Build(carrier, mapped, 1, FALSE)]

\* put_tracking, lines 312-325: the payload for a resolved carrier, the
\* exception raised while building it, and the calls made to the generator.
build_payload(client, carrier, tracking_number) ==
    IF carrier \in DOMAIN client.carrier_configurations
    THEN [exc |-> "none",
          payload |-> Some(OR23RequestBody(
              Some(client.carrier_configurations[carrier].marketplace_carrier_code),
              None, None, tracking_number)),
          build |-> Build(carrier, TRUE, 0, FALSE)]
    ELSE LET gen == tracking_url_generation_func(
                        client.tracking_url_generation_func, carrier, tracking_number)
         IN  IF gen.raised
             THEN [exc |-> "NotImplementedError", payload |-> None,
                   build |-> Build(carrier, FALSE, 1, TRUE)]
             ELSE [exc |-> "none",
                   payload |-> Some(OR23RequestBody(
                       None, Some(carrier), gen.url, tracking_number)),
                   build |-> Build(carrier, FALSE, 1, FALSE)]

\* MiraklClient.put_tracking (the function retry_wrapper wraps), answered by resp.
put_tracking(client, a, resp) ==
    LET det == IF a.carrier = None
               THEN carrier_determination_func(client.carrier_determination_func,
                                               a.tracking_number, a.tracking_number)
               ELSE [raised |-> FALSE, carrier |-> a.carrier[1]]
    IN  IF det.raised
        THEN Result("CarrierNotFound", "None", 0, FALSE, None, NoBuild)
        ELSE LET b == build_payload(client, det.carrier, a.tracking_number)
             IN  IF b.exc # "none"
                 THEN Result(b.exc, "None", 0, FALSE, None, b.build)
                 ELSE IF validate_for_mirakl(b.payload[1]) # "ok"
                 THEN Result("ValueError", "None", 0, FALSE, None, b.build)
                 ELSE LET json == model_dump_exclude_none(b.payload[1])
                      IN  IF ok(resp.status)
                          THEN Result("none", "None", resp.status, TRUE, Some(json),
                                      b.build)
                          ELSE Result("HTTPError", "None", resp.status, TRUE,
                                      Some(json), b.build)

\* MiraklClient.put_ship_confirmation (the function retry_wrapper wraps).
put_ship_confirmation(client, a, resp) ==
    IF ok(resp.status)
    THEN Result("none", CONFIRMED, resp.status, TRUE, None, NoBuild)
    ELSE IF ~resp.body.valid_json
    THEN Result("JSONDecodeError", "None", resp.status, TRUE, None, NoBuild)
    ELSE IF resp.body.message = None
    THEN Result("TypeError", "None", resp.status, TRUE, None, NoBuild)
    ELSE IF re_search(ship_pattern, resp.body.message[1])
    THEN Result("none", PREVIOUSLY_CONFIRMED, resp.status, TRUE, None, NoBuild)
    ELSE Result("HTTPError", "None", resp.status, TRUE, None, NoBuild)

request_func(name, client, a, resp) ==
    IF name = "put_tracking"
    THEN put_tracking(client, a, resp)
    ELSE put_ship_confirmation(client, a, resp)

----------------------------------------------------------------------------
(* client.py: round_up_to_nearest_nine, on IEEE-754 doubles *)

\* A double next to a whole number of cents: cents / 100 is its value to two
\* digits, ulp its distance, in units of the last place, from the double
\* nearest to cents / 100 (the double round(x, 2) and the literal give).
Float(cents, ulp) == [cents |-> cents, ulp |-> ulp]

\* The documented examples 10.00, 10.09 and 10.91, in cents.
ExamplePrices == {1000, 1009, 1091}

\* Non-negative prices in whole cents.
Prices == {Float(c, 0) : c \in (0..MaxCents) \cup ExamplePrices}

\* The cents c of 0..39 and of ExamplePrices for which the double sum
\* c / 100 + (9 - c % 10) * 0.01 is not the double nearest to the decimal
\* sum: it lies one unit in the last place above it, or below it.
SumRoundsAbove == {2, 7, 20, 22, 23, 26, 27, 28}
SumRoundsBelow == {35}

\* number + dist_to_next_nine, dist in cents; adding 0.0 is exact.
float_add(number, dist) ==
    IF dist = 0 THEN number
    ELSE Float(number.cents + dist,
               IF number.cents \in SumRoundsAbove THEN 1
               ELSE IF number.cents \in SumRoundsBelow THEN 0 - 1
               ELSE 0)

abs(n) == IF n < 0 THEN 0 - n ELSE n

round_up_to_nearest_nine(number) ==
    LET rounded == Float(number.cents, 0)
        base == rounded.cents \div 100
        mantissa == rounded.cents - base * 100
        dist_to_next_nine == abs((mantissa % 10) - 9)
    IN  float_add(rounded, dist_to_next_nine)

----------------------------------------------------------------------------
(* client.py: update_offers; offer.py: OF24Request *)

\* The caller's offer updates: discount_price is a key that may be absent.
OfferUpdateInputs ==
    [offer_sku : {"sku"}, product_id : {"p"}, base_price : {Float(2, 0), Float(1000, 0)},
     quantity : {1}, discount_price : {None, Some(Float(500, 0))}]

OfferUpdateLists == UNION {[1..n -> OfferUpdateInputs] : n \in 0..MaxOffers}

\* The fields of OF24Request.Offer that have no default.
OfferRequiredFields == {"price", "product_id", "product_id_type", "shop_sku", "state_code"}

\* The attributes of an OF24Request: its field and what BaseModel gives.
OF24RequestAttributes == {"offers", "model_dump", "model_validate"}

\* The keyword arguments update_offers constructs an Offer with (lines 200-205).
OfferKwargs(offer_input) ==
    [price |-> round_up_to_nearest_nine(offer_input.base_price),
     shop_sku |-> offer_input.offer_sku,
     product_id |-> offer_input.product_id,
     quantity |-> offer_input.quantity]

\* The line of the payload for one offer update, with its discount.
OfferLine(offer_input) ==
    [price |-> round_up_to_nearest_nine(offer_input.base_price),
     shop_sku |-> offer_input.offer_sku,
     discount |-> IF offer_input.discount_price = None THEN None
                  ELSE Some([price |-> offer_input.discount_price[1]])]

ImportIds == {None, Some(7)}
ImportResponses == [status : Statuses, import_id : ImportIds]

\* What a call without retry loop did: the exception it raised, the value it
\* returned, whether it sent its request, the response's status and its payload.
Single(exc, ret, sent, status, body) ==
    [exc |-> exc, ret |-> ret, sent |-> sent, status |-> status, body |-> body]

update_offers(client, input, resp) ==
    LET payload == Some([offers |-> [i \in 1..Len(input) |-> OfferLine(input[i])]])
    IN  IF \E i \in 1..Len(input) :
              ~(OfferRequiredFields \subseteq DOMAIN OfferKwargs(input[i]))
        THEN Single("ValidationError", None, FALSE, 0, None)
        ELSE IF "validate_all_offers" \notin OF24RequestAttributes
        THEN Single("AttributeError", None, FALSE, 0, None)
        ELSE IF ~ok(resp.status)
        THEN Single("HTTPError", None, TRUE, resp.status, payload)
        ELSE Single("none",
                    Some(IF resp.import_id = None THEN 0 ELSE resp.import_id[1]),
                    TRUE, resp.status, payload)

----------------------------------------------------------------------------
(* client.py: accept_order *)

\* accept_order answered with status: one PUT, no loop (lines 170-186).
accept_order(client, order_id, status) ==
    IF ~ok(status)
    THEN Single("HTTPError", None, TRUE, status, None)
    ELSE Single("none", None, TRUE, status, None)

----------------------------------------------------------------------------
(* Threads that call the clients without coordination *)

Threads == {"t1", "t2"}

\* The accounts the threads call, the sizes of the offer collection they
\* traverse, the answers they get and the shipment they report.
ThreadClients == {"B", "C"}
ThreadTotals == {0, limit + limit \div 2}
ThreadResponses ==
    {r \in ShipResponses :
        /\ r.retry_after = None
        /\ r.body \in {NoBody, [valid_json |-> TRUE,
                                message |-> Some(<<"Too", "Many", "Requests">>)]}}
ThreadArgs == [order_id |-> "o1", tracking_number |-> <<"1", "Z">>, carrier |-> Some("dhl")]

\* The call a thread is in: its position, operation and client, the size of
\* the collection it traverses, the pages it has requested, the 429 answers
\* to its current request and how it ended.
ThreadState(position, name, m, count, pages, r429, ended) ==
    [pc |-> position, op |-> name, self |-> m, count |-> count, pages |-> pages,
     n429 |-> r429, outcome |-> ended]
IdleThread == ThreadState("idle", "none", "B", 0, 0, 0, "none")

\* The local variables of a call (retry_wrapper line 70, get_offers line 258,
\* get_all_offers lines 237 and 243).
Locals(retry, offset, total) ==
    [retry_count |-> retry, current_offset |-> offset, total_count |-> total]
FreshLocals == Locals(0, 0, 0)

\* One frame of local variables that every thread's call uses.
frame_shared(t) == "t1"

\* The frame that holds the local variables of the call thread t is in: the
\* call's own.
frame(t) == t

----------------------------------------------------------------------------
(* Outcomes of a public call *)

NoOutcome == [kind |-> "none", value |-> "", status |-> 0, msg |-> ""]
Return(value) == [kind |-> "return", value |-> value, status |-> 0, msg |-> ""]
Raise(exc, status, msg) == [kind |-> "raise", value |-> exc, status |-> status, msg |-> msg]

\* What retry_wrapper's wrapper returns once request_func has returned ret:
\* the loop breaks and the function ends without a return statement.
wrapper_return(ret) == "None"

----------------------------------------------------------------------------
(* The server's offer collection: ids srvFirst .. srvFirst + srvCount - 1 *)

Collection(first, count) == [i \in 1..count |-> first + i - 1]

\* The offers of the page at offset, of at most max offers.
PageOf(first, count, offset, max) ==
    [i \in 1..Min(max, Max(0, count - offset)) |-> first + offset + i - 1]

----------------------------------------------------------------------------
(* client.py: get_orders *)

\* Line 161 with >= for >.
has_more_inclusive(total, offset, size) == total >= offset + size

\* Line 161: has_more = or11_response.total_count > offset + size.
has_more(total, offset, size) == total > offset + size

\* get_orders(offset, size) answered with status by a server whose collection
\* is first .. first + count - 1: one GET, no loop (lines 127-168).
get_orders(client, offset, size, status, first, count) ==
    IF ~ok(status)
    THEN Single("HTTPError", None, TRUE, status, None)
    ELSE Single("none",
                Some([orders |-> PageOf(first, count, offset, size),
                      has_more |-> has_more(count, offset, size),
                      next_order_start_offset |-> offset + size]),
                TRUE, status, None)

----------------------------------------------------------------------------
TypeOK ==
    /\ pc \in {"idle", "wrapper", "get_offers", "first_page", "next_page", "done"}
    /\ retry_count \in 0..max_retries
    /\ nreq \in 0..max_retries
    /\ nsleep \in 0..max_retries

\* No call is in progress.
InitCall ==
    /\ pc = "idle"
    /\ op = "none"
    /\ self = "A"
    /\ args = <<>>
    /\ retry_count = 0
    /\ outcome = NoOutcome
    /\ innerResult = "None"
    /\ nreq = 0
    /\ n429 = 0
    /\ nsleep = 0
    /\ lastSleep = 0
    /\ lastStatus = 0
    /\ lastBody = NoBody
    /\ lastBuild = NoBuild
    /\ wireBody = None
    /\ srvFirst = 1
    /\ srvCount = 0
    /\ nmut = 0
    /\ current_offset = 0
    /\ total_count = 0
    /\ offers = <<>>
    /\ pageCalls = <<>>
    /\ lastRetryAfter = None
    /\ earlier429 = FALSE
    /\ retval = None
    /\ loopRequests = 0
    /\ threads = [t \in Threads |-> IdleThread]
    /\ locals = [t \in Threads |-> FreshLocals]

\* The registry is constructed over the account names with their overrides.
Init ==
    /\ provided = ProviderArgs(MarketplaceNames, ConfiguredCarriers,
                               CustomTrackingUrlGeneration, CustomCarrierDetermination)
    /\ clients = MiraklClientProvider(MarketplaceNames, MarketplaceConfigs,
                                      ConfiguredCarriers, CustomTrackingUrlGeneration,
                                      CustomCarrierDetermination)
    /\ InitCall

\* The registry is constructed over any set of the account names, with the
\* carrier maps and resolvers of any of the accounts that have one and with
\* any generator for any of the accounts that have one.
InitRegistry ==
    /\ \E names \in SUBSET MarketplaceNames,
          cn \in SUBSET DOMAIN ConfiguredCarriers,
          un \in SUBSET DOMAIN CustomTrackingUrlGeneration,
          dn \in SUBSET DOMAIN CustomCarrierDetermination :
        \E carriers \in {[a \in cn |-> ConfiguredCarriers[a]]},
           url_funcs \in [un -> {"gen_all", "gen_relative"}],
           det_funcs \in {[a \in dn |-> CustomCarrierDetermination[a]]} :
            /\ provided = ProviderArgs(names, carriers, url_funcs, det_funcs)
            /\ clients = MiraklClientProvider(names, MarketplaceConfigs, carriers,
                                              url_funcs, det_funcs)
    /\ InitCall

\* A call starts on an idle client; its local state is fresh.
StartCall(name, m, a, position) ==
    /\ pc = "idle"
    /\ pc' = position
    /\ op' = name
    /\ self' = m
    /\ args' = a
    /\ UNCHANGED <<clients, retry_count, outcome, innerResult, nreq, n429, nsleep,
                   lastSleep, lastStatus, lastBody, lastBuild, wireBody, nmut,
                   current_offset, total_count, offers, lastRetryAfter,
                   earlier429, retval, loopRequests, provided,
                   threads, locals>>

\* The caller takes the outcome; the finished call's locals are gone.
CallerReceives ==
    /\ pc = "done"
    /\ pc' = "idle"
    /\ op' = "none"
    /\ self' = "A"
    /\ args' = <<>>
    /\ retry_count' = 0
    /\ outcome' = NoOutcome
    /\ innerResult' = "None"
    /\ nreq' = 0
    /\ n429' = 0
    /\ nsleep' = 0
    /\ lastSleep' = 0
    /\ lastStatus' = 0
    /\ lastBody' = NoBody
    /\ lastBuild' = NoBuild
    /\ wireBody' = None
    /\ nmut' = 0
    /\ current_offset' = 0
    /\ total_count' = 0
    /\ offers' = <<>>
    /\ pageCalls' = <<>>
    /\ srvFirst' = 1
    /\ srvCount' = 0
    /\ lastRetryAfter' = None
    /\ earlier429' = FALSE
    /\ retval' = None
    /\ loopRequests' = 0
    /\ UNCHANGED <<clients, provided,
                   threads, locals>>

----------------------------------------------------------------------------
(* retry_wrapper: put_tracking and put_ship_confirmation *)

CallPutTracking ==
    /\ pc = "idle"
    /\ \E m \in DOMAIN clients, o \in OrderIds, tn \in TrackingNumbers,
          c \in {None} \cup {Some(x) : x \in ShippingCarrier} :
           /\ StartCall("put_tracking", m,
                        [order_id |-> o, tracking_number |-> tn, carrier |-> c],
                        "wrapper")
           /\ pageCalls' = <<>>
           /\ UNCHANGED <<srvFirst, srvCount>>

CallPutShipConfirmation ==
    /\ pc = "idle"
    /\ \E m \in DOMAIN clients, o \in OrderIds :
           /\ StartCall("put_ship_confirmation", m, [order_id |-> o], "wrapper")
           /\ pageCalls' = <<>>
           /\ UNCHANGED <<srvFirst, srvCount>>

\* One iteration of wrapper's while loop (lines 73-84) and, when the loop
\* ends, the code after it (lines 86-87).
WrapperAttempt ==
    /\ pc = "wrapper"
    /\ retry_count < max_retries
    /\ \E resp \in (IF op = "put_tracking" THEN Responses ELSE ShipResponses) :
        LET r == request_func(op, clients[self], args, resp)
            limited == r.exc = "HTTPError" /\ IsRateLimited(r.status)
        IN  /\ nreq' = IF r.sent THEN nreq + 1 ELSE nreq
            /\ lastStatus' = IF r.sent THEN resp.status ELSE lastStatus
            /\ lastBody' = IF r.sent THEN resp.body ELSE lastBody
            /\ n429' = IF r.sent /\ resp.status = 429 THEN n429 + 1 ELSE n429
            /\ lastRetryAfter' = IF r.sent /\ resp.status = 429
                                 THEN resp.retry_after ELSE lastRetryAfter
            /\ lastBuild' = r.build
            /\ wireBody' = IF r.body # None THEN r.body ELSE wireBody
            /\ IF r.exc = "none"
               THEN \* break; retry_count < max_retries; the wrapper ends
                    /\ innerResult' = r.ret
                    /\ outcome' = Return(wrapper_return(r.ret))
                    /\ pc' = "done"
                    /\ UNCHANGED <<retry_count, nsleep, lastSleep>>
               ELSE IF limited
               THEN /\ nsleep' = nsleep + 1
                    /\ lastSleep' = retry_after_of(resp)
                    /\ retry_count' = retry_count + 1
                    /\ IF retry_count + 1 >= max_retries
                       THEN /\ outcome' = Raise("Exception", 0, "Max retries exceeded")
                            /\ pc' = "done"
                       ELSE UNCHANGED <<outcome, pc>>
                    /\ UNCHANGED innerResult
               ELSE \* raise e, or an exception the except clause does not catch
                    /\ outcome' = Raise(r.exc, r.status, "")
                    /\ pc' = "done"
                    /\ UNCHANGED <<retry_count, nsleep, lastSleep, innerResult>>
    /\ UNCHANGED <<clients, op, self, args, srvFirst, srvCount, nmut,
                   current_offset, total_count, offers, pageCalls, earlier429,
                   retval, loopRequests, provided,
                   threads, locals>>

----------------------------------------------------------------------------
(* get_offers and get_all_offers *)

\* The collection the server holds is the environment of a traversal: it is
\* drawn when the call starts and changes only by ServerMutate.  Its sizes are
\* those around the page boundaries, the middle of a page and the largest.
TotalCounts ==
    {n \in 0..MaxTotal : n % limit \in {0, 1, limit \div 2, limit - 1} \/ n = MaxTotal}

CallGetOffers ==
    /\ pc = "idle"
    /\ \E m \in DOMAIN clients, offset \in {0, limit}, n \in TotalCounts :
           /\ StartCall("get_offers", m, [offset |-> offset, max |-> limit], "get_offers")
           /\ pageCalls' = <<offset>>
           /\ srvFirst' = 1
           /\ srvCount' = n

\* get_all_offers, lines 236-239: the call of get_offers for the first page.
CallGetAllOffers ==
    /\ pc = "idle"
    /\ \E m \in DOMAIN clients, n \in TotalCounts :
           /\ StartCall("get_all_offers", m, [offset |-> 0, max |-> limit], "first_page")
           /\ pageCalls' = <<0>>
           /\ srvFirst' = 1
           /\ srvCount' = n

\* The server's collection changes under the traversal: its first offer is
\* removed, or an offer is added at its end.
ServerMutate ==
    /\ \/ pc \in {"get_offers", "first_page", "next_page"}
       \/ pc = "done" /\ op = "get_orders" /\ outcome.kind = "return"
                      /\ retval[1].has_more
    /\ nmut < MaxMutations
    /\ nmut' = nmut + 1
    /\ \/ /\ srvCount > 0
          /\ srvFirst' = srvFirst + 1
          /\ srvCount' = srvCount - 1
       \/ /\ srvCount' = srvCount + 1
          /\ UNCHANGED srvFirst
    /\ UNCHANGED <<clients, pc, op, self, args, retry_count, outcome, innerResult,
                   nreq, n429, nsleep, lastSleep, lastStatus, lastBody, lastBuild,
                   wireBody, current_offset, total_count, offers, pageCalls,
                   lastRetryAfter, earlier429, retval, loopRequests, provided,
                   threads, locals>>

\* get_all_offers, line 245: the while condition.
LoopContinues(offset, total) == offset < total

\* Line 250 as an assignment instead of an extension.
Accumulate_assign(acc, page) == page

\* get_all_offers, line 250: offers.extend(next_page.offers).
Accumulate(acc, page) == acc \o page

\* get_all_offers reading total_count from every page.
first_page_total_count_reread(position, reported, current) == reported

\* get_all_offers, line 243: total_count = first_page.total_count, the only
\* assignment of total_count.
first_page_total_count(position, reported, current) ==
    IF position = "first_page" THEN reported ELSE current

\* get_offers keeping the count of the call before it.
get_offers_retry_count_kept(previous) == previous

\* get_offers, line 258: retry_count = 0, a local of each call of get_offers.
get_offers_retry_count(previous) == 0

\* One iteration of get_offers' while loop (lines 261-286), with the code
\* after the loop (line 288) when the loop ends and, when get_offers returns
\* to get_all_offers, get_all_offers up to its next call of get_offers
\* (lines 241-249) or its return (line 252).
GetOffersAttempt ==
    /\ pc \in {"get_offers", "first_page", "next_page"}
    /\ retry_count < get_offers_max_retries
    /\ \E resp \in Responses :
        LET offset == pageCalls[Len(pageCalls)]
            page == PageOf(srvFirst, srvCount, offset, args.max)
            acc == IF pc = "next_page" THEN Accumulate(offers, page) ELSE page
            total == first_page_total_count(pc, srvCount, total_count)
        IN  IF ok(resp.status)
            THEN IF pc # "get_offers" /\ LoopContinues(current_offset, total)
                 THEN \* the next page: a new call of get_offers
                      /\ pc' = "next_page"
                      /\ offers' = acc
                      /\ total_count' = total
                      /\ current_offset' = current_offset + limit
                      /\ pageCalls' = Append(pageCalls, current_offset + limit)
                      /\ retry_count' = get_offers_retry_count(retry_count)
                      /\ nreq' = 0
                      /\ n429' = 0
                      /\ nsleep' = 0
                      /\ lastSleep' = 0
                      /\ lastStatus' = 0
                      /\ lastRetryAfter' = None
                      /\ earlier429' = (earlier429 \/ n429 > 0)
                      /\ UNCHANGED outcome
                 ELSE /\ pc' = "done"
                      /\ offers' = acc
                      /\ total_count' = total
                      /\ outcome' = Return(IF pc = "get_offers" THEN "OF21Response"
                                                                ELSE "offers")
                      /\ retry_count' = retry_count + 1
                      /\ nreq' = nreq + 1
                      /\ lastStatus' = resp.status
                      /\ UNCHANGED <<current_offset, pageCalls, n429, nsleep, lastSleep,
                                     lastRetryAfter, earlier429>>
            ELSE /\ retry_count' = retry_count + 1
                 /\ nreq' = nreq + 1
                 /\ lastStatus' = resp.status
                 /\ UNCHANGED <<offers, total_count, current_offset, pageCalls,
                                earlier429>>
                 /\ IF IsRateLimited(resp.status)
                    THEN /\ n429' = n429 + 1
                         /\ lastRetryAfter' = resp.retry_after
                         /\ nsleep' = nsleep + 1
                         /\ lastSleep' = retry_after_of(resp)
                         /\ IF retry_count + 1 >= get_offers_max_retries
                            THEN /\ outcome' = Raise("Exception", 0,
                                                     "This code should be unreachable")
                                 /\ pc' = "done"
                            ELSE UNCHANGED <<outcome, pc>>
                    ELSE \* response.raise_for_status()
                         /\ outcome' = Raise("HTTPError", resp.status, "")
                         /\ pc' = "done"
                         /\ UNCHANGED <<n429, nsleep, lastSleep, lastRetryAfter>>
    /\ UNCHANGED <<clients, op, self, args, innerResult, lastBody, lastBuild,
                   wireBody, srvFirst, srvCount, nmut, retval, loopRequests,
                   provided,
                   threads, locals>>

----------------------------------------------------------------------------
(* Calls without retry loop *)

\* A call that runs from its start to its return or raise in one step.
Finish(name, a, r) ==
    /\ pc' = "done"
    /\ op' = name
    /\ args' = a
    /\ outcome' = IF r.exc = "none" THEN Return(name) ELSE Raise(r.exc, r.status, "")
    /\ retval' = r.ret
    /\ nreq' = IF r.sent THEN 1 ELSE 0
    /\ n429' = IF r.sent /\ r.status = 429 THEN 1 ELSE 0
    /\ lastStatus' = r.status
    /\ wireBody' = r.body
    /\ UNCHANGED <<clients, retry_count, innerResult, nsleep, lastSleep, lastBody,
                   lastBuild, current_offset, offers, pageCalls, lastRetryAfter,
                   earlier429, provided,
                   threads, locals>>

\* The arguments get_orders is called with: offset 0 and a non-zero one;
\* no orders, half a page and a page of orders asked for.
OrderOffsets == {0, 10}
OrderSizes == {0, limit \div 2, limit}

\* A caller's first call of get_orders.
CallGetOrders ==
    /\ pc = "idle"
    /\ \E m \in DOMAIN clients, offset \in OrderOffsets, size \in OrderSizes,
          n \in TotalCounts, status \in Statuses :
        /\ Finish("get_orders", [offset |-> offset, size |-> size],
                  get_orders(clients[m], offset, size, status, 1, n))
        /\ self' = m
        /\ srvFirst' = 1
        /\ srvCount' = n
        /\ total_count' = IF ok(status) THEN n ELSE 0
    /\ loopRequests' = 1
    /\ UNCHANGED nmut

\* The caller follows next_order_start_offset while has_more is true.
FollowNextOffset ==
    /\ pc = "done"
    /\ op = "get_orders"
    /\ outcome.kind = "return"
    /\ retval[1].has_more
    /\ loopRequests < MaxFollow
    /\ \E status \in Statuses :
        /\ Finish("get_orders",
                  [offset |-> retval[1].next_order_start_offset, size |-> args.size],
                  get_orders(clients[self], retval[1].next_order_start_offset,
                             args.size, status, srvFirst, srvCount))
        /\ total_count' = IF ok(status) THEN srvCount ELSE 0
    /\ loopRequests' = loopRequests + 1
    /\ UNCHANGED <<self, srvFirst, srvCount, nmut>>

\* Tracking numbers longer than the prefix, and the order number argument.
LongTrackingNumbers == {<<"1", "Z", "1">>, <<"1", "Z", " ", "Z">>, <<"Z", "1", "Z">>}
OrderNumbers == {None} \cup {Some(o) : o \in OrderIds}

CallDetermineCarrier ==
    /\ pc = "idle"
    /\ \E tn \in TrackingNumbers \cup LongTrackingNumbers, o \in OrderNumbers :
        LET r == determine_carrier(tn, o)
        IN  Finish("determine_carrier",
                   [tracking_number |-> tn, marketpace_order_number |-> o],
                   Single(IF r.raised THEN "CarrierNotFound" ELSE "none",
                          IF r.raised THEN None ELSE Some(r.carrier),
                          FALSE, 0, None))
    /\ UNCHANGED <<self, srvFirst, srvCount, nmut, loopRequests, total_count>>

\* The names get_client is asked for: the accounts and an unregistered name.
LookupNames == MarketplaceNames \cup {"E"}

CallGetClient ==
    /\ pc = "idle"
    /\ \E marketplace \in LookupNames :
        Finish("get_client", [marketplace |-> marketplace],
               Single("none", Some(get_client(clients, marketplace)), FALSE, 0, None))
    /\ UNCHANGED <<self, srvFirst, srvCount, nmut, loopRequests, total_count>>

CallAcceptOrder ==
    /\ pc = "idle"
    /\ \E m \in DOMAIN clients, o \in OrderIds, status \in Statuses :
        /\ Finish("accept_order", [order_id |-> o],
                  accept_order(clients[m], o, status))
        /\ self' = m
    /\ UNCHANGED <<srvFirst, srvCount, nmut, loopRequests, total_count>>

CallUpdateOffers ==
    /\ pc = "idle"
    /\ \E m \in DOMAIN clients, input \in OfferUpdateLists, resp \in ImportResponses :
        /\ Finish("update_offers", [input |-> input, response |-> resp],
                  update_offers(clients[m], input, resp))
        /\ self' = m
    /\ UNCHANGED <<srvFirst, srvCount, nmut, loopRequests, total_count>>

CallRoundUpToNearestNine ==
    /\ pc = "idle"
    /\ \E number \in Prices :
        Finish("round_up_to_nearest_nine", [number |-> number],
               Single("none", Some(round_up_to_nearest_nine(number)), FALSE, 0, None))
    /\ UNCHANGED <<self, srvFirst, srvCount, nmut, loopRequests, total_count>>

Next ==
    \/ CallGetOrders
    \/ FollowNextOffset
    \/ CallAcceptOrder
    \/ CallUpdateOffers
    \/ CallRoundUpToNearestNine
    \/ CallDetermineCarrier
    \/ CallGetClient
    \/ CallPutTracking
    \/ CallPutShipConfirmation
    \/ WrapperAttempt
    \/ CallGetOffers
    \/ CallGetAllOffers
    \/ ServerMutate
    \/ GetOffersAttempt
    \/ CallerReceives

Spec == Init /\ [][Next]_vars

\* Lookups in registries constructed over any accounts and overrides.
NextRegistry ==
    \/ CallGetClient
    \/ CallerReceives

SpecRegistry == InitRegistry /\ [][NextRegistry]_vars

----------------------------------------------------------------------------
(* Calls of several threads, interleaved at their requests *)

\* The variables of the single caller above.
callVars == <<pc, op, self, args, retry_count, outcome, innerResult, nreq, n429,
              nsleep, lastSleep, lastStatus, lastBody, lastBuild, wireBody,
              srvFirst, srvCount, nmut, current_offset, total_count, offers,
              pageCalls, lastRetryAfter, earlier429, retval, loopRequests>>

NoLoopOps == {"get_orders", "accept_order", "update_offers"}
LoopOps == {"put_tracking", "put_ship_confirmation", "get_offers", "get_all_offers"}

\* Thread t calls an operation that has a retry loop: the call's locals are set.
ThreadCall(t) ==
    /\ threads[t].pc = "idle"
    /\ \E name \in LoopOps, m \in ThreadClients, n \in ThreadTotals :
        /\ name \in {"put_tracking", "put_ship_confirmation"} => n = 0
        /\ threads' = [threads EXCEPT ![t] =
              ThreadState(CASE name = "get_offers" -> "get_offers"
                            [] name = "get_all_offers" -> "first_page"
                            [] OTHER -> "wrapper",
                          name, m, n, 1, 0, "none")]
        /\ locals' = [locals EXCEPT ![frame(t)] = FreshLocals]
    /\ UNCHANGED <<clients, provided, callVars>>

\* Thread t calls an operation that sends one request and has no loop.
ThreadSingle(t) ==
    /\ threads[t].pc = "idle"
    /\ \E name \in NoLoopOps, m \in ThreadClients, status \in Statuses :
        LET r == CASE name = "get_orders" ->
                        get_orders(clients[m], 0, limit, status, 1, 0)
                   [] name = "accept_order" ->
                        accept_order(clients[m], "o1", status)
                   [] name = "update_offers" ->
                        update_offers(clients[m], <<>>,
                                      [status |-> status, import_id |-> None])
        IN  threads' = [threads EXCEPT ![t] =
                ThreadState("done", name, m, 0, IF r.sent THEN 1 ELSE 0,
                            IF r.sent /\ r.status = 429 THEN 1 ELSE 0, r.exc)]
    /\ UNCHANGED <<clients, provided, locals, callVars>>

\* One iteration of the retry loop of thread t's call: of wrapper (lines
\* 73-87) or of get_offers (lines 261-288), with get_all_offers' step to its
\* next page (lines 243-252).
ThreadAttempt(t) ==
    LET th == threads[t]
        lo == locals[frame(t)]
        ends(e) == /\ threads' = [threads EXCEPT ![t].pc = "done", ![t].outcome = e]
                   /\ UNCHANGED locals
        limited(e) ==
            /\ locals' = [locals EXCEPT ![frame(t)].retry_count = lo.retry_count + 1]
            /\ threads' = [threads EXCEPT
                   ![t].n429 = th.n429 + 1,
                   ![t].pc = IF lo.retry_count + 1 >= max_retries THEN "done" ELSE th.pc,
                   ![t].outcome = IF lo.retry_count + 1 >= max_retries THEN e ELSE "none"]
    IN  /\ th.pc \in {"wrapper", "get_offers", "first_page", "next_page"}
        /\ lo.retry_count < (IF th.pc = "wrapper" THEN max_retries
                                                  ELSE get_offers_max_retries)
        /\ \E resp \in ThreadResponses :
            IF th.pc = "wrapper"
            THEN LET r == request_func(th.op, clients[th.self], ThreadArgs, resp)
                 IN  IF r.exc = "none" THEN ends("return")
                     ELSE IF r.exc = "HTTPError" /\ IsRateLimited(r.status)
                     THEN limited("Exception")
                     ELSE ends(r.exc)
            ELSE IF ok(resp.status)
            THEN LET total == first_page_total_count(th.pc, th.count, lo.total_count)
                 IN  IF th.pc # "get_offers" /\ LoopContinues(lo.current_offset, total)
                     THEN /\ locals' = [locals EXCEPT ![frame(t)] =
                                Locals(get_offers_retry_count(lo.retry_count),
                                       lo.current_offset + limit, total)]
                          /\ threads' = [threads EXCEPT ![t].pc = "next_page",
                                                        ![t].pages = th.pages + 1,
                                                        ![t].n429 = 0]
                     ELSE ends("return")
            ELSE IF IsRateLimited(resp.status) THEN limited("Exception")
            ELSE ends("HTTPError")
        /\ UNCHANGED <<clients, provided, callVars>>

\* The caller in thread t takes the outcome; the call's locals are gone.
ThreadReceives(t) ==
    /\ threads[t].pc = "done"
    /\ threads' = [threads EXCEPT ![t] = IdleThread]
    /\ locals' = [locals EXCEPT ![frame(t)] = FreshLocals]
    /\ UNCHANGED <<clients, provided, callVars>>

NextThreads ==
    \E t \in Threads :
        \/ ThreadCall(t)
        \/ ThreadSingle(t)
        \/ ThreadAttempt(t)
        \/ ThreadReceives(t)

SpecThreads == Init /\ [][NextThreads]_vars

----------------------------------------------------------------------------
(* Properties *)

RetryingOps == {"put_tracking", "put_ship_confirmation", "get_offers"}

\* The rejection's message holds "Current status is".
MessageMatches(body) ==
    /\ body.valid_json
    /\ body.message # None
    /\ re_search(ship_pattern, body.message[1])

\* The URL the account's generator gives for the carrier of the last build.
GeneratedUrl ==
    tracking_url_generation_func(clients[self].tracking_url_generation_func,
                                 lastBuild.carrier, args.tracking_number)

\* C1: a retrying operation (put_tracking, put_ship_confirmation, get_offers)
\* whose every attempt is answered with HTTP 429 (with a JSON body) issues
\* exactly 10 requests and then fails with the retry-budget error (a plain
\* Exception) instead of returning.
C1_BudgetOfTenOn429 ==
    (pc = "done" /\ op \in RetryingOps /\ nreq >= 1 /\ n429 = nreq
     /\ lastBody.valid_json)
        => /\ nreq = 10
           /\ outcome.kind = "raise"
           /\ outcome.value = "Exception"

\* C2: the wrapped operation returns to its caller the value its first
\* successful underlying call returned, after any number of 429 answers.
C2_ReturnsInnerResult ==
    (pc = "done" /\ op \in {"put_tracking", "put_ship_confirmation"}
     /\ outcome.kind = "return")
        => outcome.value = innerResult

\* C3: put_ship_confirmation gives its caller CONFIRMED when the server answers
\* 2xx and PREVIOUSLY_CONFIRMED when the server rejects with a message holding
\* "Current status is", and no error in either case.
C3_ShipConfirmationResult ==
    (pc = "done" /\ op = "put_ship_confirmation" /\ lastStatus # 0)
        => /\ ok(lastStatus) => outcome = Return(CONFIRMED)
           /\ (~ok(lastStatus) /\ MessageMatches(lastBody))
                  => outcome = Return(PREVIOUSLY_CONFIRMED)

\* C4: over a stable collection of N >= 1 offers get_all_offers calls for
\* pages exactly at the offsets 0, 100, 200, ... below N (3 pages for N = 250).
C4_PagesBelowTotal ==
    (pc = "done" /\ op = "get_all_offers" /\ outcome.kind = "return"
     /\ nmut = 0 /\ srvCount >= 1)
        => /\ Len(pageCalls) = (srvCount + 99) \div 100
           /\ \A i \in 1..Len(pageCalls) : pageCalls[i] = (i - 1) * 100

\* C5: over a stable collection get_all_offers returns every offer of the
\* collection exactly once, in the server's order.
C5_AllOffersOnceInOrder ==
    (pc = "done" /\ op = "get_all_offers" /\ outcome.kind = "return" /\ nmut = 0)
        => /\ offers = Collection(srvFirst, srvCount)
           /\ \A i, j \in 1..Len(offers) : i # j => offers[i] # offers[j]

\* C5 witness: a stable traversal of more than two pages has returned.
C5_Witness ==
    /\ pc = "done" /\ op = "get_all_offers" /\ outcome.kind = "return"
    /\ nmut = 0 /\ srvCount > 2 * limit /\ Len(offers) = srvCount

\* C6: put_tracking for a carrier the account maps to a carrier code sends the
\* body {carrier_code, tracking_number}; for a carrier without a mapping whose
\* generated URL is valid it sends {carrier_name, carrier_url, tracking_number}.
C6_TrackingShapes ==
    (op = "put_tracking" /\ lastBuild.reached)
        => /\ lastBuild.mapped
                => /\ wireBody # None
                   /\ DOMAIN wireBody[1] = {"carrier_code", "tracking_number"}
           /\ (~lastBuild.mapped /\ ~GeneratedUrl.raised
               /\ validators_url(GeneratedUrl.url[1]))
                => /\ wireBody # None
                   /\ DOMAIN wireBody[1] =
                          {"carrier_name", "carrier_url", "tracking_number"}

\* C7: a payload build for a mapped carrier never calls the tracking-URL
\* generator; a build for an unmapped carrier calls it exactly once, and when
\* the generator raises the call fails and nothing is transmitted.
C7_GeneratorCalls ==
    lastBuild.reached
        => /\ lastBuild.mapped => lastBuild.genCalls = 0
           /\ ~lastBuild.mapped => lastBuild.genCalls = 1
           /\ lastBuild.genRaised
                => /\ pc = "done"
                   /\ outcome.kind = "raise"
                   /\ outcome.value = "NotImplementedError"
                   /\ nreq = 0
                   /\ wireBody = None

\* C7 witness: a build for an unmapped carrier whose generator raised.
C7_Witness ==
    /\ op = "put_tracking" /\ lastBuild.reached /\ ~lastBuild.mapped
    /\ lastBuild.genCalls = 1 /\ lastBuild.genRaised /\ outcome.kind = "raise"

\* C8: every tracking body transmitted has exactly one shape: carrier_code
\* without carrier_name and carrier_url, or carrier_name and carrier_url
\* without carrier_code.
C8_ExactlyOneShape ==
    wireBody # None
        => LET fields == DOMAIN wireBody[1]
           IN  \/ /\ "carrier_code" \in fields
                  /\ "carrier_name" \notin fields
                  /\ "carrier_url" \notin fields
               \/ /\ "carrier_code" \notin fields
                  /\ "carrier_name" \in fields
                  /\ "carrier_url" \in fields

\* C8 witness: a tracking body was transmitted again after a 429.
C8_Witness ==
    /\ op = "put_tracking" /\ wireBody # None /\ nreq >= 2 /\ n429 >= 1

\* C9: after a failure answer other than 429 (and other than the rejection
\* put_ship_confirmation reads as previously confirmed) the operation has
\* ended with that error: no request and no sleep follows it.
C9_NoRetryOnOtherFailure ==
    (pc # "idle" /\ lastStatus >= 400 /\ lastStatus # 429
     /\ ~(op = "put_ship_confirmation" /\ MessageMatches(lastBody)))
        => /\ pc = "done"
           /\ outcome.kind = "raise"
           /\ nreq = n429 + 1
           /\ nsleep = n429
           /\ op # "put_ship_confirmation"
                => outcome = Raise("HTTPError", lastStatus, "")

\* C9 witness: the first attempt was answered 500; one request, no sleep.
C9_Witness ==
    /\ pc = "done" /\ lastStatus = 500 /\ nreq = 1 /\ nsleep = 0
    /\ outcome = Raise("HTTPError", 500, "")

\* C10: put_ship_confirmation raises the HTTP error of the response for every
\* rejection other than 429 whose JSON body does not hold "Current status is",
\* a body without a message field included.
C10_OtherRejectionIsHttpError ==
    (pc = "done" /\ op = "put_ship_confirmation" /\ lastStatus >= 400
     /\ lastStatus # 429 /\ lastBody.valid_json /\ ~MessageMatches(lastBody))
        => outcome = Raise("HTTPError", lastStatus, "")

\* C11: update_offers on any list of offer updates sends exactly one POST whose
\* offers list has one line per update in input order, each line's price the
\* normalized base price and its discount price the update's own, and returns
\* the import_id of the response, or 0 when the response has none.
C11_UpdateOffersPostsOnce ==
    (pc = "done" /\ op = "update_offers" /\ ok(args.response.status)) =>
        /\ nreq = 1
        /\ wireBody # None
        /\ Len(wireBody[1].offers) = Len(args.input)
        /\ \A i \in 1..Len(args.input) :
              /\ wireBody[1].offers[i].shop_sku = args.input[i].offer_sku
              /\ wireBody[1].offers[i].price
                    = round_up_to_nearest_nine(args.input[i].base_price)
              /\ args.input[i].discount_price # None =>
                    wireBody[1].offers[i].discount
                        = Some([price |-> args.input[i].discount_price[1]])
        /\ outcome.kind = "return"
        /\ retval = Some(IF args.response.import_id = None
                         THEN 0 ELSE args.response.import_id[1])

\* C13: for every non-negative price in whole cents round_up_to_nearest_nine
\* returns a value not below the input, whose last cents digit is 9, in the
\* same dollar band; it returns the input when its cents digit is 9 already,
\* and applying it to its own result returns that result.
C13_NormalizeToNine ==
    (pc = "done" /\ op = "round_up_to_nearest_nine") =>
        LET x == args.number
            y == retval[1]
        IN  /\ y.cents >= x.cents
            /\ y.cents = x.cents => y.ulp >= x.ulp
            /\ y.cents % 10 = 9
            /\ y.cents \div 100 = x.cents \div 100
            /\ x.cents % 10 = 9 => y = x
            /\ round_up_to_nearest_nine(y) = y

\* The first offset of the caller's paging loop over get_orders.
LoopStart == args.offset - (loopRequests - 1) * args.size

Ceil(a, b) == (a + b - 1) \div b

\* C12: a successful get_orders(offset, size) returns has_more = (total_count >
\* offset + size) and next offset = offset + size; so a caller that starts at
\* offset 0 and follows the next offset while has_more is true has issued
\* max(1, ceil(total_count / size)) requests when it stops, on a stable
\* collection.
C12_HasMoreAndRequestCount ==
    (pc = "done" /\ op = "get_orders" /\ outcome.kind = "return") =>
        /\ retval[1].has_more = (total_count > args.offset + args.size)
        /\ retval[1].next_order_start_offset = args.offset + args.size
        /\ (~retval[1].has_more /\ LoopStart = 0 /\ args.size >= 1 /\ nmut = 0) =>
              loopRequests = Max(1, Ceil(srvCount, args.size))

\* A loop from offset 0 over a collection of several full pages has stopped.
C12_Witness ==
    /\ pc = "done" /\ op = "get_orders" /\ outcome.kind = "return"
    /\ ~retval[1].has_more /\ LoopStart = 0 /\ nmut = 0
    /\ args.size = limit \div 2
    /\ srvCount = 2 * limit
    /\ loopRequests = 4

\* C14: determine_carrier returns UPS for every tracking number that begins
\* with "1Z" and raises CarrierNotFound for every other tracking number,
\* whatever the order number argument and whatever calls came before.
C14_DefaultResolver ==
    (pc = "done" /\ op = "determine_carrier") =>
        LET tn == args.tracking_number
        IN  IF Len(tn) >= 2 /\ tn[1] = "1" /\ tn[2] = "Z"
            THEN outcome.kind = "return" /\ retval = Some("ups")
            ELSE outcome.kind = "raise" /\ outcome.value = "CarrierNotFound"
                 /\ retval = None

\* A tracking number longer than its prefix "1Z" is resolved, an order number given.
C14_Witness ==
    /\ pc = "done" /\ op = "determine_carrier"
    /\ Len(args.tracking_number) > 2
    /\ args.marketpace_order_number # None
    /\ retval = Some("ups")

\* The override config[m] if account m has one, the default otherwise.
OwnOrDefault(config, m, default) ==
    IF m \in DOMAIN config THEN config[m] ELSE default

\* C15: after the registry is constructed over a set of account names,
\* get_client(name) returns the client built for name for every registered name
\* and None, without raising, for every other name; each client carries the
\* resolver, the URL generator and the carrier codes configured for its own
\* account and the defaults otherwise, never those of another account.
C15_RegistryLookup ==
    /\ DOMAIN clients = provided.marketplace_names
    /\ \A m \in DOMAIN clients :
        LET own == OwnOrDefault(provided.configured_carriers_config, m, <<>>)
        IN  /\ clients[m].marketplace = m
            /\ clients[m].base_url = provided.marketplace_config[m].base_url
            /\ clients[m].api_key = provided.marketplace_config[m].api_key
            /\ clients[m].tracking_url_generation_func
                  = OwnOrDefault(provided.custom_tracking_url_generation_config, m,
                                 "generate_custom_tracking_url")
            /\ clients[m].carrier_determination_func
                  = OwnOrDefault(provided.custom_carrier_determination_config, m,
                                 "determine_carrier")
            /\ DOMAIN clients[m].carrier_configurations
                  = {own[i].shipping_carrier : i \in 1..Len(own)}
            /\ \A k \in DOMAIN clients[m].carrier_configurations :
                  \E i \in 1..Len(own) : own[i] = clients[m].carrier_configurations[k]
    /\ (pc = "done" /\ op = "get_client") =>
          /\ outcome.kind = "return"
          /\ retval[1] = IF args.marketplace \in provided.marketplace_names
                         THEN Some(clients[args.marketplace]) ELSE None

\* An account without overrides is looked up in a registry that holds an account
\* with a generator and a carrier map of its own.
C15_Witness ==
    /\ pc = "done" /\ op = "get_client"
    /\ args.marketplace = "C"
    /\ {"A", "C"} \subseteq provided.marketplace_names
    /\ "A" \in DOMAIN provided.custom_tracking_url_generation_config
    /\ "A" \in DOMAIN provided.configured_carriers_config
    /\ retval[1] # None
    /\ retval[1][1].tracking_url_generation_func = "generate_custom_tracking_url"
    /\ DOMAIN retval[1][1].carrier_configurations = {}

\* C17: in a retrying operation every 429 response is followed by exactly one
\* sleep, of the response's Retry-After seconds (2 without the header), before
\* the next attempt; there is no sleep after a success or another failure and
\* there are no two attempts without a sleep between them.
C17_OneSleepPer429 ==
    (op \in RetryingOps \cup {"get_all_offers"} /\ lastBody.valid_json) =>
        /\ nsleep = n429
        /\ nreq <= nsleep + 1
        /\ lastStatus = 429 =>
              lastSleep = IF lastRetryAfter = None THEN 2 ELSE lastRetryAfter[1]

\* The offsets requested are 0, limit, 2 * limit, ..., each one after the first
\* requested because the offset before it lies below total.
OffsetsFollow(calls, total) ==
    \A i \in 1..Len(calls) :
        /\ calls[i] = (i - 1) * limit
        /\ i >= 2 => calls[i - 1] < total

\* C18: get_all_offers reads total_count from the first page only: no later
\* page changes it, the offsets requested and the stopping point follow from
\* it alone whatever later pages report, and the page requests are at most
\* ceil(total_count / limit) + 1 for every first-page total_count >= 0.
C18_TotalFromFirstPage ==
    [][/\ (op = "get_all_offers" /\ pc = "next_page") => total_count' = total_count
       /\ op' = "get_all_offers" =>
             /\ OffsetsFollow(pageCalls', total_count')
             /\ Len(pageCalls') <= Ceil(total_count', limit) + 1
             /\ (pc' = "done" /\ outcome'.kind = "return") =>
                   pageCalls'[Len(pageCalls')] >= total_count']_vars

\* A traversal of several pages has returned though the collection changed
\* its size after the first page.
C18_Witness ==
    /\ pc = "done" /\ op = "get_all_offers" /\ outcome.kind = "return"
    /\ nmut >= 1
    /\ srvCount # total_count
    /\ total_count % limit = 0
    /\ Len(pageCalls) >= 3

\* The tracking number begins with "1Z".
Begins1Z == Len(args.tracking_number) >= 2 /\ args.tracking_number[1] = "1"
                                           /\ args.tracking_number[2] = "Z"

\* put_tracking cannot build its payload: no carrier is given and the default
\* resolver fails; or the carrier has no carrier code and the default
\* generator serves no such carrier; or the URL generated is not valid.
ResolverFails ==
    /\ args.carrier = None
    /\ clients[self].carrier_determination_func = "determine_carrier"
    /\ ~Begins1Z
GeneratorRaises ==
    /\ lastBuild.reached /\ ~lastBuild.mapped
    /\ clients[self].tracking_url_generation_func = "generate_custom_tracking_url"
    /\ lastBuild.carrier # "dhl"
UrlIsInvalid ==
    /\ lastBuild.reached /\ ~lastBuild.mapped
    /\ ~GeneratedUrl.raised
    /\ LET u == GeneratedUrl.url[1]
       IN  u.scheme = "" \/ u.host = "" \/ \E i \in 1..Len(u.tn) : u.tn[i] = " "

\* C19: put_tracking sends no request and neither retries nor sleeps when the
\* payload cannot be built: the resolver's CarrierNotFound, the generator's
\* error for a carrier it does not serve and the ValueError for an invalid
\* URL reach the caller after zero requests.
C19_NoRequestWithoutPayload ==
    (pc = "done" /\ op = "put_tracking"
     /\ (ResolverFails \/ GeneratorRaises \/ UrlIsInvalid)) =>
        /\ nreq = 0
        /\ nsleep = 0
        /\ retry_count = 0
        /\ wireBody = None
        /\ outcome.kind = "raise"
        /\ outcome.value = IF ResolverFails THEN "CarrierNotFound"
                           ELSE IF GeneratorRaises THEN "NotImplementedError"
                           ELSE "ValueError"

\* The generated URL of an unmapped carrier was not valid.
C19_Witness ==
    /\ pc = "done" /\ op = "put_tracking"
    /\ UrlIsInvalid /\ ~ResolverFails /\ ~GeneratorRaises
    /\ nreq = 0
    /\ outcome.value = "ValueError"

\* C20: in get_all_offers each page has its own retry budget of 10 attempts:
\* the count of a page is the count of the 429 answers to that page.  When a
\* page fails, by ten 429 answers or by an answer that is another failure,
\* the call raises that error, returns no list, and has requested no page
\* after the failed one.
C20_BudgetPerPage ==
    (op = "get_all_offers" /\ pc # "idle") =>
        /\ pc # "done" => retry_count = n429 /\ nreq = n429
        /\ pageCalls[Len(pageCalls)] = current_offset
        /\ (pc = "done" /\ lastStatus = 429) =>
              /\ n429 = get_offers_max_retries
              /\ nreq = get_offers_max_retries
              /\ outcome = Raise("Exception", 0, "This code should be unreachable")
        /\ (pc = "done" /\ lastStatus >= 400 /\ lastStatus # 429) =>
              outcome = Raise("HTTPError", lastStatus, "")
        /\ (pc = "done" /\ lastStatus < 400) => outcome = Return("offers")
        /\ n429 < get_offers_max_retries => ~(pc = "done" /\ lastStatus = 429)

\* A later page used up its ten attempts after an earlier page was answered 429.
C20_Witness ==
    /\ pc = "done" /\ op = "get_all_offers"
    /\ earlier429
    /\ Len(pageCalls) >= 2
    /\ n429 = get_offers_max_retries
    /\ outcome.kind = "raise"

\* C16: no operation, in any interleaving of the calls of two threads on the
\* same or on different clients, changes a client's configuration or the
\* registry's clients; retry counters and pagination offsets belong to one
\* call: a step of one thread leaves the other's untouched, a call starts
\* with them fresh, and a call's retry counter counts its own 429 answers.
C16_NoSharedMutableState ==
    [][/\ clients' = clients
       /\ provided' = provided
       /\ \A u \in Threads :
            /\ threads'[u] = threads[u] => locals'[u] = locals[u]
            /\ (threads[u].pc = "idle" /\ threads'[u].pc \notin {"idle", "done"}) =>
                  locals'[u] = FreshLocals
            /\ threads'[u].pc \notin {"idle", "done"} =>
                  /\ locals'[u].retry_count = threads'[u].n429
                  /\ locals'[u].current_offset = (threads'[u].pages - 1) * limit]_vars

\* Both threads are in a retry loop on the same client, at different counts,
\* one of them on a later page.
C16_Witness ==
    /\ threads["t1"].pc = "wrapper" /\ threads["t2"].pc = "next_page"
    /\ threads["t1"].self = threads["t2"].self
    /\ locals["t1"].retry_count = 3
    /\ locals["t2"].retry_count = 1
    /\ locals["t2"].current_offset = limit

\* The status the server answers the call's request with.
AnsweredStatus == IF op = "update_offers" THEN args.response.status ELSE lastStatus

====
